---- MODULE Spec2Model ----
(***************************************************************************)
(* telnet-irc (src/telnet-irc.c): a wrapper that spawns a telnet Process,  *)
(* relays stdin to it and its output to stdout through a libevent loop,    *)
(* and answers IRC PING requests found in the Process's output.  The       *)
(* build is the default one, DEBUG=0 (src/Makefile): no DEBUG line is      *)
(* printed.                                                                *)
(*                                                                         *)
(* Bytes are one-character strings; "NUL" is the zero byte, "SP" a space   *)
(* and "NL" a newline.  A buffer is a sequence of bytes.                   *)
(***************************************************************************)
EXTENDS Integers, Sequences, FiniteSets, TLC

VARIABLES
  pc,          \* position of the main thread (main and startEvents)
  argc,        \* main's argc
  port,        \* main's port (6667, or atoi(argv[2]))
  addr,        \* main's addr_ptr after getIPFromHost: "unset", "NULL", "set"
  msgs,        \* the diagnostic lines main printed, in order
  base,        \* the global event_base pointer: "NULL", "alloc" or "freed" (dangling)
  eventBreak,  \* libevent's base->event_break
  pipeEvent,   \* the watch on p->out: "none", "added", "freed"
  stdinEvent,  \* the watch on STDIN_FILENO: "none", "added", "freed"
  p,           \* the global Process pointer: "NULL", "created", "open", "closed", "freed"
  handlers,    \* TRUE once signal() installed handleSignals for SIGCHLD and SIGINT
  child,       \* the telnet child: "none", "connecting", "connected", "exited"
  connFailed,  \* TRUE when the child's connection attempt failed
  pipeBuf,     \* bytes the child wrote to its stdout that were not read yet
  pipeEof,     \* TRUE when the write side of p->out is closed
  stdinBuf,    \* bytes pending on our stdin
  active,      \* the callbacks libevent activated in this loop iteration
  cb,          \* the callback that is running: "none", "pipe", "stdin"
  cbpc,        \* its position: "ioctl", "read", "proc"
  count,       \* the callback's count (FIONREAD result)
  data,        \* the callback's data buffer (the bytes read)
  owed,        \* once event_break is set: the reads that drain what was
               \* pending on the running callback's descriptor then, less
               \* the reads the callback made since
  out,         \* every byte written to our stdout by the relay and the signal handler
  toChild,     \* every write to p->in, in order: [by, bytes]
  stdinRead,   \* every byte read from stdin, in order
  pipeRead,    \* every chunk read from p->out, in order
  hist,        \* the last chunk read: [src, chunk, writes, out, done, sig]
  sigSeen,     \* which signals handleSignals got while the loop was running
  eofRunning,  \* TRUE when the stream from the child ended while the loop was running
  exitStatus,  \* {} while running and after a crash, {the exit status} after main returns
  closes,      \* the number of process_close(p) calls
  peerLeft,    \* chunks the peer may still send
  stdinLeft,   \* chunks the operator may still type
  sigintLeft   \* interrupts the operator may still send

vars == <<pc, argc, port, addr, msgs, base, eventBreak, pipeEvent, stdinEvent, p,
          handlers, child, connFailed, pipeBuf, pipeEof, stdinBuf, active, cb,
          cbpc, count, data, owed, out, toChild, stdinRead, pipeRead, hist,
          sigSeen, eofRunning, exitStatus, closes, peerLeft, stdinLeft,
          sigintLeft>>

mainVars == <<pc, argc, port, addr, msgs, p, handlers, exitStatus, closes>>
loopVars == <<base, eventBreak, pipeEvent, stdinEvent, active>>
cbVars   == <<cb, cbpc, count, data, owed>>
ioVars   == <<out, toChild, stdinRead, pipeRead, hist, eofRunning>>
envVars  == <<child, connFailed, pipeBuf, pipeEof, stdinBuf, peerLeft,
              stdinLeft, sigintLeft>>

----------------------------------------------------------------------------
(* Bounds of the model. *)

\* the read size of both callbacks, standing for the 1024 of read(fd, data, 1024)
MaxRead == 16
\* pieces a chunk sent by the peer is made of, in the chunk specification
MaxPieces == 3
\* length of a chunk typed on stdin, in the chunk specification
MaxStdinLen == 2
\* chunks the peer sends in one run
MaxPeerSends == 1
\* chunks typed on stdin in one run
MaxStdinSends == 2
\* interrupts the operator sends in one run
MaxSigint == 2

----------------------------------------------------------------------------
(* C strings. *)

Min(a, b) == IF a < b THEN a ELSE b

\* the length strlen() reports: the bytes before the first NUL
strlen(buf) ==
  IF \E i \in 1..Len(buf) : buf[i] = "NUL"
  THEN (CHOOSE i \in 1..Len(buf) :
          /\ buf[i] = "NUL"
          /\ \A j \in 1..(i - 1) : buf[j] # "NUL") - 1
  ELSE Len(buf)

\* a calloc'ed buffer read as a C string
CStr(buf) == SubSeq(buf, 1, strlen(buf))

isspace(c) == c \in {"SP", "NL"}

PING == <<"P", "I", "N", "G">>
PONG == <<"P", "O", "N", "G">>

\* strstr(s, needle) != NULL
strstr(s, needle) ==
  \E i \in 1..(Len(s) - Len(needle) + 1) :
     SubSeq(s, i, i + Len(needle) - 1) = needle

\* the index of the first byte of s at or after i that is no white space
SkipSpace(s, i) ==
  IF \E k \in i..Len(s) : ~isspace(s[k])
  THEN CHOOSE k \in i..Len(s) :
         /\ ~isspace(s[k])
         /\ \A j \in i..(k - 1) : isspace(s[j])
  ELSE Len(s) + 1

\* the index after the run of non-space bytes of s that starts at i
TokenEnd(s, i) ==
  IF \E k \in i..Len(s) : isspace(s[k])
  THEN CHOOSE k \in i..Len(s) :
         /\ isspace(s[k])
         /\ \A j \in i..(k - 1) : ~isspace(s[j])
  ELSE Len(s) + 1

\* sscanf(s, "PING %s\n", source) on a zeroed source: the literal PING is
\* matched at the first byte of s, white space is skipped, %s takes the next
\* run of non-space bytes; source stays empty when a step fails.
sscanfSource(s) ==
  IF Len(s) >= 4 /\ SubSeq(s, 1, 4) = PING
  THEN LET i == SkipSpace(s, 5)
       IN  SubSeq(s, i, TokenEnd(s, i) - 1)
  ELSE <<>>

\* processPing(data): the return value and the buffer written to p->in
processPing(d) ==
  IF strstr(CStr(d), PING)
  THEN [retVal |-> 1,
        wrote  |-> <<PONG \o <<"SP">> \o sscanfSource(CStr(d)) \o <<"NL">>>>]
  ELSE [retVal |-> 0, wrote |-> <<>>]


----------------------------------------------------------------------------
(* Inputs. *)

\* the port main starts with
DefaultPort == 6667

\* the exit status main returns: status is set once and never assigned again
status == -1

\* values atoi(argv[2]) yields
PortArgs == {-1, 0, 1, 6669, 65535, 65536}

\* the exit status the parent of the process sees
ExitCode(s) == s % 256

RECURSIVE ChunksOf(_, _)
\* the concatenations of at most n members of P
ChunksOf(P, n) ==
  IF n = 0 THEN {<<>>}
  ELSE LET prev == ChunksOf(P, n - 1)
       IN  prev \cup {c \o q : c \in prev, q \in P}

ProbeA == PING \o <<"SP", ":", "a", "NL">>
ProbeB == PING \o <<"SP", ":", "b", "NL">>

\* what the child's output is made of in the chunk specification
Pieces == {ProbeA, ProbeB, PING, <<"P", "I">>, <<"N", "G">>, <<"SP">>,
           <<":", "a">>, <<"NL">>, <<"x">>, <<"NUL">>}

PeerChunks == ChunksOf(Pieces, MaxPieces) \ {<<>>}

StdinChunks == ChunksOf({<<"a">>, <<"NUL">>}, MaxStdinLen) \ {<<>>}

\* what the child and the operator send in the lifecycle specification
LifePeerChunks == {<<"x">>, ProbeA}
LifeStdinChunks == {<<"y">>}

NoHist == [src |-> "none", chunk |-> <<>>, writes |-> <<>>, out |-> <<>>,
           done |-> FALSE, sig |-> FALSE]

----------------------------------------------------------------------------
(* The state at the start of main. *)

Init ==
  /\ pc = "start"
  /\ argc = 0
  /\ port = DefaultPort
  /\ addr = "unset"
  /\ msgs = <<>>
  /\ base = "NULL"
  /\ eventBreak = FALSE
  /\ pipeEvent = "none"
  /\ stdinEvent = "none"
  /\ p = "NULL"
  /\ handlers = FALSE
  /\ child = "none"
  /\ connFailed = FALSE
  /\ pipeBuf = <<>>
  /\ pipeEof = FALSE
  /\ stdinBuf = <<>>
  /\ active = <<>>
  /\ cb = "none"
  /\ cbpc = "none"
  /\ count = 0
  /\ data = <<>>
  /\ owed = 0
  /\ out = <<>>
  /\ toChild = <<>>
  /\ stdinRead = <<>>
  /\ pipeRead = <<>>
  /\ hist = NoHist
  /\ sigSeen = {}
  /\ eofRunning = FALSE
  /\ exitStatus = {}
  /\ closes = 0
  /\ peerLeft = MaxPeerSends
  /\ stdinLeft = MaxStdinSends
  /\ sigintLeft = MaxSigint

----------------------------------------------------------------------------
(* main, up to the event loop. *)

\* the range test with its lower bound off by one: port >= 0
ValidPort_LowerOff(n) == n >= 0 /\ n < 65536

\* port > 0 && port < 65536
ValidPort(n) == n > 0 /\ n < 65536

\* main: the argument checks (argc > 1, the optional atoi(argv[2]), the range)
MainArgs ==
  /\ pc = "start"
  /\ \E ac \in 1..3, pv \in PortArgs :
       LET pt == IF ac > 2 THEN pv ELSE DefaultPort
       IN  /\ argc' = ac
           /\ port' = pt
           /\ IF ac > 1
              THEN IF ValidPort(pt)
                   THEN pc' = "resolve" /\ msgs' = msgs
                   ELSE pc' = "return" /\ msgs' = msgs \o <<"BadPort", "Usage">>
              ELSE pc' = "return" /\ msgs' = msgs \o <<"NoHost", "Usage">>
  /\ UNCHANGED <<addr, p, handlers, exitStatus, closes>>
  /\ UNCHANGED <<loopVars, cbVars, ioVars, sigSeen, envVars>>

\* main without the test of addr_ptr: it goes on after a failed resolution
MainResolve_NoCheck ==
  /\ pc = "resolve"
  /\ \E found \in BOOLEAN :
       /\ pc' = "signals"
       /\ addr' = IF found THEN "set" ELSE "NULL"
       /\ msgs' = msgs
  /\ UNCHANGED <<argc, port, p, handlers, exitStatus, closes>>
  /\ UNCHANGED <<loopVars, cbVars, ioVars, sigSeen, envVars>>

\* main: addr_ptr = getIPFromHost(argv[1]), NULL when gethostbyname fails
MainResolve ==
  /\ pc = "resolve"
  /\ \E found \in BOOLEAN :
       IF found
       THEN pc' = "signals" /\ addr' = "set" /\ msgs' = msgs
       ELSE pc' = "return" /\ addr' = "NULL"
            /\ msgs' = Append(msgs, "NoResolve")
  /\ UNCHANGED <<argc, port, p, handlers, exitStatus, closes>>
  /\ UNCHANGED <<loopVars, cbVars, ioVars, sigSeen, envVars>>

\* main: signal(SIGCHLD, handleSignals) and signal(SIGINT, handleSignals)
MainSignals ==
  /\ pc = "signals"
  /\ \E ok \in BOOLEAN :
       IF ok
       THEN pc' = "create" /\ handlers' = TRUE
       ELSE pc' = "return" /\ handlers' = handlers
  /\ UNCHANGED <<argc, port, addr, msgs, p, exitStatus, closes>>
  /\ UNCHANGED <<loopVars, cbVars, ioVars, sigSeen, envVars>>

\* procmanage's process_create and process_add_arg/process_add_envs
process_create == p' = "created"

\* procmanage's process_open: the child runs and its pipes are open
process_open == p' = "open" /\ child' = "connecting"

\* procmanage's process_close: the pipes to the child are closed
process_close == p' = "closed" /\ closes' = closes + 1

\* procmanage's process_free
process_free == p' = "freed"

\* main: p = process_create(...), its arguments and environment
MainCreate ==
  /\ pc = "create"
  /\ process_create
  /\ pc' = "open"
  /\ UNCHANGED <<argc, port, addr, msgs, handlers, exitStatus, closes>>
  /\ UNCHANGED <<loopVars, cbVars, ioVars, sigSeen, envVars>>

\* main: process_open(p), then the call of startEvents
MainOpen ==
  /\ pc = "open"
  /\ process_open
  /\ pc' = "base_new"
  /\ UNCHANGED <<argc, port, addr, msgs, handlers, exitStatus, closes>>
  /\ UNCHANGED <<loopVars, cbVars, ioVars, sigSeen>>
  /\ UNCHANGED <<connFailed, pipeBuf, pipeEof, stdinBuf, peerLeft, stdinLeft,
                 sigintLeft>>


----------------------------------------------------------------------------
(* startEvents: the set-up of the event loop. *)

\* the loop is inside event_base_loop
Running == pc \in {"loop_top", "loop_run"}

\* startEvents: base = event_base_new()
SeBaseNew ==
  /\ pc = "base_new"
  /\ base' = "alloc"
  /\ eventBreak' = FALSE
  /\ pc' = "add_pipe"
  /\ UNCHANGED <<argc, port, addr, msgs, p, handlers, exitStatus, closes>>
  /\ UNCHANGED <<pipeEvent, stdinEvent, active>>
  /\ UNCHANGED <<cbVars, ioVars, sigSeen, envVars>>

\* startEvents: pipeEvent = event_new(base, p->out, ...) and event_add
SeAddPipe ==
  /\ pc = "add_pipe"
  /\ pipeEvent' = "added"
  /\ pc' = "add_stdin"
  /\ UNCHANGED <<argc, port, addr, msgs, p, handlers, exitStatus, closes>>
  /\ UNCHANGED <<base, eventBreak, stdinEvent, active>>
  /\ UNCHANGED <<cbVars, ioVars, sigSeen, envVars>>

\* startEvents: stdinEvent = event_new(base, STDIN_FILENO, ...) and event_add
SeAddStdin ==
  /\ pc = "add_stdin"
  /\ stdinEvent' = "added"
  /\ pc' = "loop_enter"
  /\ UNCHANGED <<argc, port, addr, msgs, p, handlers, exitStatus, closes>>
  /\ UNCHANGED <<base, eventBreak, pipeEvent, active>>
  /\ UNCHANGED <<cbVars, ioVars, sigSeen, envVars>>

\* startEvents: the entry of event_base_loop(base, 0x04), which clears
\* event_break before its first iteration
SeLoopEnter ==
  /\ pc = "loop_enter"
  /\ eventBreak' = FALSE
  /\ pc' = "loop_top"
  /\ UNCHANGED <<argc, port, addr, msgs, p, handlers, exitStatus, closes>>
  /\ UNCHANGED <<base, pipeEvent, stdinEvent, active>>
  /\ UNCHANGED <<cbVars, ioVars, sigSeen, envVars>>

----------------------------------------------------------------------------
(* event_base_loop: one iteration tests event_break, waits for the watched  *)
(* descriptors or their 10 ms timeouts, and runs the callbacks that became  *)
(* active; it leaves after a callback that returns with event_break set.    *)

\* the number of read(fd, data, 1024) calls that take the bytes of buf
ReadsFor(buf) == (Len(buf) + MaxRead - 1) \div MaxRead

\* the orders in which one wait can activate the two callbacks
ActiveSets == {<<>>, <<"pipe">>, <<"stdin">>, <<"pipe", "stdin">>,
               <<"stdin", "pipe">>}

\* a read of the descriptor would not block: bytes are pending, or the
\* write side of the pipe is closed
PipeReady == pipeBuf # <<>> \/ pipeEof
StdinReady == stdinBuf # <<>>

\* the callbacks one wait activates: those of the ready descriptors, and
\* any other whose 10 ms timeout ran out
Activated ==
  {a \in ActiveSets :
     /\ PipeReady => \E i \in 1..Len(a) : a[i] = "pipe"
     /\ StdinReady => \E i \in 1..Len(a) : a[i] = "stdin"}

\* a loop that leaves as soon as event_break is set, with a callback
\* still running
LoopBreak_Preempt ==
  /\ pc \in {"loop_top", "loop_run"}
  /\ eventBreak
  /\ pc' = "del_pipe"
  /\ UNCHANGED <<argc, port, addr, msgs, p, handlers, exitStatus, closes>>
  /\ UNCHANGED <<loopVars, cbVars, ioVars, sigSeen, envVars>>

\* event_base_loop returns: event_break was set
LoopBreak ==
  /\ pc = "loop_top"
  /\ eventBreak
  /\ pc' = "del_pipe"
  /\ UNCHANGED <<argc, port, addr, msgs, p, handlers, exitStatus, closes>>
  /\ UNCHANGED <<loopVars, cbVars, ioVars, sigSeen, envVars>>

\* event_base_loop waits and collects the active callbacks
LoopDispatch ==
  /\ pc = "loop_top"
  /\ ~eventBreak
  /\ \E a \in Activated : active' = a
  /\ pc' = "loop_run"
  /\ UNCHANGED <<argc, port, addr, msgs, p, handlers, exitStatus, closes>>
  /\ UNCHANGED <<base, eventBreak, pipeEvent, stdinEvent>>
  /\ UNCHANGED <<cbVars, ioVars, sigSeen, envVars>>

\* event_base_loop calls the next active callback, or starts the next iteration
LoopRun ==
  /\ pc = "loop_run"
  /\ cb = "none"
  /\ IF active = <<>>
     THEN pc' = "loop_top" /\ UNCHANGED <<active, cbVars>>
     ELSE /\ cb' = Head(active)
          /\ cbpc' = "ioctl"
          /\ active' = Tail(active)
          /\ owed' = IF ~eventBreak THEN 0
                     ELSE IF Head(active) = "pipe" THEN ReadsFor(pipeBuf)
                     ELSE ReadsFor(stdinBuf)
          /\ UNCHANGED <<pc, count, data>>
  /\ UNCHANGED <<argc, port, addr, msgs, p, handlers, exitStatus, closes>>
  /\ UNCHANGED <<base, eventBreak, pipeEvent, stdinEvent>>
  /\ UNCHANGED <<ioVars, sigSeen, envVars>>

----------------------------------------------------------------------------
(* pipeEventCallback and stdinEventCallback. *)

\* the bytes pending on the descriptor the running callback reads
Pending == IF cb = "pipe" THEN pipeBuf ELSE stdinBuf

\* ioctl(fd, FIONREAD, &count) and the test of the while loop; with count
\* at 0 the callback returns to event_base_loop
CbIoctl ==
  /\ cb \in {"pipe", "stdin"}
  /\ cbpc = "ioctl"
  /\ count' = Len(Pending)
  /\ IF Len(Pending) > 0
     THEN cbpc' = "read" /\ UNCHANGED <<cb, active, owed>>
     ELSE /\ cb' = "none"
          /\ cbpc' = "none"
          /\ owed' = 0
          /\ active' = IF eventBreak THEN <<>> ELSE active
  /\ UNCHANGED <<data, mainVars, base, eventBreak, pipeEvent, stdinEvent>>
  /\ UNCHANGED <<ioVars, sigSeen, envVars>>

\* data = calloc(1025, 1); read(fd, data, 1024)
CbRead ==
  /\ cb \in {"pipe", "stdin"}
  /\ cbpc = "read"
  /\ LET n == Min(Len(Pending), MaxRead)
     IN  /\ data' = SubSeq(Pending, 1, n)
         /\ owed' = IF eventBreak THEN owed - 1 ELSE owed
         /\ IF cb = "pipe"
            THEN /\ pipeBuf' = SubSeq(pipeBuf, n + 1, Len(pipeBuf))
                 /\ pipeRead' = Append(pipeRead, SubSeq(pipeBuf, 1, n))
                 /\ UNCHANGED <<stdinBuf, stdinRead>>
            ELSE /\ stdinBuf' = SubSeq(stdinBuf, n + 1, Len(stdinBuf))
                 /\ stdinRead' = stdinRead \o SubSeq(stdinBuf, 1, n)
                 /\ UNCHANGED <<pipeBuf, pipeRead>>
  /\ hist' = [src |-> cb, chunk |-> data', writes |-> <<>>, out |-> <<>>,
              done |-> FALSE, sig |-> FALSE]
  /\ cbpc' = "proc"
  /\ UNCHANGED <<cb, count, mainVars, loopVars, out, toChild, sigSeen,
                 eofRunning>>
  /\ UNCHANGED <<child, connFailed, pipeEof, peerLeft, stdinLeft, sigintLeft>>

\* the echo without the test of processPing's result
pipeEcho_Always(d) == CStr(d)

\* what pipeEventCallback prints for a chunk: printf("%s", data) when
\* processPing found no request
pipeEcho(d) == IF processPing(d).retVal = 0 THEN CStr(d) ELSE <<>>

\* what stdinEventCallback writes to p->in: write(p->in, data, strlen(data))
stdinWrite(d) == CStr(d)

\* pipeEventCallback: processPing(data), the echo, free(data)
PipeProc ==
  /\ cb = "pipe"
  /\ cbpc = "proc"
  /\ LET w == [i \in 1..Len(processPing(data).wrote) |->
                 [by |-> "pipe", bytes |-> processPing(data).wrote[i]]]
     IN  /\ toChild' = toChild \o w
         /\ out' = out \o pipeEcho(data)
         /\ hist' = [hist EXCEPT !.writes = w, !.out = pipeEcho(data),
                                 !.done = TRUE]
  /\ data' = <<>>
  /\ cbpc' = "ioctl"
  /\ UNCHANGED <<cb, count, owed, mainVars, loopVars, stdinRead, pipeRead,
                 sigSeen, eofRunning, envVars>>

\* stdinEventCallback: the write to p->in, free(data)
StdinProc ==
  /\ cb = "stdin"
  /\ cbpc = "proc"
  /\ LET w == <<[by |-> "stdin", bytes |-> stdinWrite(data)]>>
     IN  /\ toChild' = toChild \o w
         /\ hist' = [hist EXCEPT !.writes = w, !.done = TRUE]
  /\ data' = <<>>
  /\ cbpc' = "ioctl"
  /\ UNCHANGED <<cb, count, owed, mainVars, loopVars, out, stdinRead,
                 pipeRead, sigSeen, eofRunning, envVars>>


----------------------------------------------------------------------------
(* startEvents after the loop, and the end of main. *)

\* startEvents: event_del(pipeEvent); event_free(pipeEvent)
SeDelPipe ==
  /\ pc = "del_pipe"
  /\ pipeEvent' = "freed"
  /\ pc' = "del_stdin"
  /\ UNCHANGED <<argc, port, addr, msgs, p, handlers, exitStatus, closes>>
  /\ UNCHANGED <<base, eventBreak, stdinEvent, active>>
  /\ UNCHANGED <<cbVars, ioVars, sigSeen, envVars>>

\* startEvents without the event_del and event_free of stdinEvent
SeDelStdin_Skip ==
  /\ pc = "del_stdin"
  /\ pc' = "base_free"
  /\ UNCHANGED <<argc, port, addr, msgs, p, handlers, exitStatus, closes>>
  /\ UNCHANGED <<loopVars, cbVars, ioVars, sigSeen, envVars>>

\* startEvents: event_del(stdinEvent); event_free(stdinEvent)
SeDelStdin ==
  /\ pc = "del_stdin"
  /\ stdinEvent' = "freed"
  /\ pc' = "base_free"
  /\ UNCHANGED <<argc, port, addr, msgs, p, handlers, exitStatus, closes>>
  /\ UNCHANGED <<base, eventBreak, pipeEvent, active>>
  /\ UNCHANGED <<cbVars, ioVars, sigSeen, envVars>>

\* startEvents: event_base_free(base); the global still points to it
SeBaseFree ==
  /\ pc = "base_free"
  /\ base' = "freed"
  /\ pc' = "base_null"
  /\ UNCHANGED <<argc, port, addr, msgs, p, handlers, exitStatus, closes>>
  /\ UNCHANGED <<eventBreak, pipeEvent, stdinEvent, active>>
  /\ UNCHANGED <<cbVars, ioVars, sigSeen, envVars>>

\* startEvents: pipeEvent = NULL; stdinEvent = NULL; base = NULL; return
SeBaseNull ==
  /\ pc = "base_null"
  /\ base' = "NULL"
  /\ pc' = "close"
  /\ UNCHANGED <<argc, port, addr, msgs, p, handlers, exitStatus, closes>>
  /\ UNCHANGED <<eventBreak, pipeEvent, stdinEvent, active>>
  /\ UNCHANGED <<cbVars, ioVars, sigSeen, envVars>>

\* main: process_close(p)
MainClose ==
  /\ pc = "close"
  /\ process_close
  /\ pc' = "free"
  /\ UNCHANGED <<argc, port, addr, msgs, handlers, exitStatus>>
  /\ UNCHANGED <<loopVars, cbVars, ioVars, sigSeen, envVars>>

\* main: process_free(p)
MainFree ==
  /\ pc = "free"
  /\ process_free
  /\ pc' = "return"
  /\ UNCHANGED <<argc, port, addr, msgs, handlers, exitStatus, closes>>
  /\ UNCHANGED <<loopVars, cbVars, ioVars, sigSeen, envVars>>

\* main: return status
MainReturn ==
  /\ pc = "return"
  /\ pc' = "exited"
  /\ exitStatus' = {ExitCode(status)}
  /\ UNCHANGED <<argc, port, addr, msgs, p, handlers, closes>>
  /\ UNCHANGED <<loopVars, cbVars, ioVars, sigSeen, envVars>>

----------------------------------------------------------------------------
(* handleSignals, run between any two steps of the main thread. *)

Alive == pc \notin {"exited", "crashed"}

\* handleSignals(sig): the printf for SIGINT, then
\* if (base != NULL) event_base_loopbreak(base).  On a base that was freed
\* the call writes to released memory: it goes unnoticed or the process dies.
\* The handler returns to the statement it interrupted: the callback that
\* was running keeps its position, its count and its data.
handleSignals(sig) ==
  /\ out' = IF sig = "SIGINT" THEN out \o <<"BS", "BS", "CR">> ELSE out
  /\ sigSeen' = IF Running THEN sigSeen \cup {sig} ELSE sigSeen
  /\ hist' = IF cb # "none" /\ cbpc = "proc"
             THEN [hist EXCEPT !.sig = TRUE] ELSE hist
  /\ owed' = IF base = "alloc" /\ ~eventBreak /\ cb # "none"
             THEN ReadsFor(IF cb = "pipe" THEN pipeBuf ELSE stdinBuf)
             ELSE owed
  /\ \/ /\ base = "NULL"
        /\ UNCHANGED <<eventBreak, pc, exitStatus>>
     \/ /\ base = "alloc"
        /\ eventBreak' = TRUE
        /\ UNCHANGED <<pc, exitStatus>>
     \/ /\ base = "freed"
        /\ UNCHANGED <<eventBreak, pc, exitStatus>>
     \/ /\ base = "freed"
        /\ pc' = "crashed"
        /\ UNCHANGED <<eventBreak, exitStatus>>

\* the operator's ^C
Sigint ==
  /\ handlers
  /\ Alive
  /\ sigintLeft > 0
  /\ sigintLeft' = sigintLeft - 1
  /\ handleSignals("SIGINT")
  /\ UNCHANGED <<argc, port, addr, msgs, p, handlers, closes>>
  /\ UNCHANGED <<base, pipeEvent, stdinEvent, active>>
  /\ UNCHANGED <<cb, cbpc, count, data, toChild, stdinRead, pipeRead,
                 eofRunning>>
  /\ UNCHANGED <<child, connFailed, pipeBuf, pipeEof, stdinBuf, peerLeft,
                 stdinLeft>>

----------------------------------------------------------------------------
(* The telnet child and the operator. *)

\* the child connected to the remote host
ChildConnect ==
  /\ p = "open"
  /\ Alive
  /\ child = "connecting"
  /\ child' = "connected"
  /\ UNCHANGED <<mainVars, loopVars, cbVars, ioVars, sigSeen>>
  /\ UNCHANGED <<connFailed, pipeBuf, pipeEof, stdinBuf, peerLeft, stdinLeft,
                 sigintLeft>>

\* the child could not connect and exits: SIGCHLD
ChildConnectFail ==
  /\ p = "open"
  /\ Alive
  /\ child = "connecting"
  /\ child' = "exited"
  /\ connFailed' = TRUE
  /\ pipeEof' = TRUE
  /\ eofRunning' = (eofRunning \/ (Running /\ ~pipeEof))
  /\ handleSignals("SIGCHLD")
  /\ UNCHANGED <<argc, port, addr, msgs, p, handlers, closes>>
  /\ UNCHANGED <<base, pipeEvent, stdinEvent, active>>
  /\ UNCHANGED <<cb, cbpc, count, data, toChild, stdinRead, pipeRead>>
  /\ UNCHANGED <<pipeBuf, stdinBuf, peerLeft, stdinLeft, sigintLeft>>

\* the connected child exits: SIGCHLD
ChildExit ==
  /\ p = "open"
  /\ Alive
  /\ child = "connected"
  /\ child' = "exited"
  /\ pipeEof' = TRUE
  /\ eofRunning' = (eofRunning \/ (Running /\ ~pipeEof))
  /\ handleSignals("SIGCHLD")
  /\ UNCHANGED <<argc, port, addr, msgs, p, handlers, closes>>
  /\ UNCHANGED <<base, pipeEvent, stdinEvent, active>>
  /\ UNCHANGED <<cb, cbpc, count, data, toChild, stdinRead, pipeRead>>
  /\ UNCHANGED <<connFailed, pipeBuf, stdinBuf, peerLeft, stdinLeft,
                 sigintLeft>>

\* the stream from the peer ends: the write side of p->out is closed while
\* the child still runs
PipeEof ==
  /\ p = "open"
  /\ Alive
  /\ child = "connected"
  /\ ~pipeEof
  /\ pipeEof' = TRUE
  /\ eofRunning' = (eofRunning \/ Running)
  /\ UNCHANGED <<mainVars, loopVars, cbVars, out, toChild, stdinRead,
                 pipeRead, hist, sigSeen>>
  /\ UNCHANGED <<child, connFailed, pipeBuf, stdinBuf, peerLeft, stdinLeft,
                 sigintLeft>>

\* the child writes a chunk received from the peer to its stdout
PeerSend(S) ==
  /\ p = "open"
  /\ Alive
  /\ child = "connected"
  /\ ~pipeEof
  /\ peerLeft > 0
  /\ peerLeft' = peerLeft - 1
  /\ \E c \in S : pipeBuf' = pipeBuf \o c
  /\ UNCHANGED <<mainVars, loopVars, cbVars, ioVars, sigSeen>>
  /\ UNCHANGED <<child, connFailed, pipeEof, stdinBuf, stdinLeft, sigintLeft>>

\* the operator types a chunk
StdinSend(S) ==
  /\ p = "open"
  /\ Alive
  /\ stdinLeft > 0
  /\ stdinLeft' = stdinLeft - 1
  /\ \E c \in S : stdinBuf' = stdinBuf \o c
  /\ UNCHANGED <<mainVars, loopVars, cbVars, ioVars, sigSeen>>
  /\ UNCHANGED <<child, connFailed, pipeBuf, pipeEof, peerLeft, sigintLeft>>

----------------------------------------------------------------------------
(* The lifecycle specification: one run of the program with its            *)
(* environment.                                                            *)

\* the steps of the main thread
Program ==
  \/ MainArgs \/ MainResolve \/ MainSignals \/ MainCreate \/ MainOpen
  \/ SeBaseNew \/ SeAddPipe \/ SeAddStdin \/ SeLoopEnter
  \/ LoopBreak \/ LoopDispatch \/ LoopRun
  \/ CbIoctl \/ CbRead \/ PipeProc \/ StdinProc
  \/ SeDelPipe \/ SeDelStdin \/ SeBaseFree \/ SeBaseNull
  \/ MainClose \/ MainFree \/ MainReturn

\* the steps of the environment
Environment ==
  \/ Sigint \/ ChildConnect \/ ChildConnectFail \/ ChildExit \/ PipeEof
  \/ PeerSend(LifePeerChunks) \/ StdinSend(LifeStdinChunks)

Next == Program \/ Environment

Spec == Init /\ [][Next]_vars

\* the main thread is never suspended for ever
FairSpec == Spec /\ WF_vars(Program)

----------------------------------------------------------------------------
(* The chunk specification: the running loop fed with one chunk from the   *)
(* peer, or with chunks from stdin, drawn from all chunks of the bounds.   *)

ChunkInit ==
  /\ pc = "loop_top"
  /\ argc = 2
  /\ port = DefaultPort
  /\ addr = "set"
  /\ msgs = <<>>
  /\ base = "alloc"
  /\ eventBreak = FALSE
  /\ pipeEvent = "added"
  /\ stdinEvent = "added"
  /\ p = "open"
  /\ handlers = TRUE
  /\ child = "connected"
  /\ connFailed = FALSE
  /\ pipeBuf = <<>>
  /\ pipeEof = FALSE
  /\ stdinBuf = <<>>
  /\ active = <<>>
  /\ cb = "none"
  /\ cbpc = "none"
  /\ count = 0
  /\ data = <<>>
  /\ owed = 0
  /\ out = <<>>
  /\ toChild = <<>>
  /\ stdinRead = <<>>
  /\ pipeRead = <<>>
  /\ hist = NoHist
  /\ sigSeen = {}
  /\ eofRunning = FALSE
  /\ exitStatus = {}
  /\ closes = 0
  /\ sigintLeft = 0
  /\ \/ peerLeft = 1 /\ stdinLeft = 0
     \/ peerLeft = 0 /\ stdinLeft = MaxStdinSends

ChunkNext ==
  \/ PeerSend(PeerChunks) \/ StdinSend(StdinChunks)
  \/ LoopDispatch \/ LoopRun
  \/ CbIoctl \/ CbRead \/ PipeProc \/ StdinProc

ChunkSpec == ChunkInit /\ [][ChunkNext]_vars


----------------------------------------------------------------------------
(* The teardown specification: the clean-up statements of startEvents and  *)
(* main, from the return of event_base_loop after an interrupt, and then   *)
(* the same statements once more.                                          *)

TeardownInit ==
  /\ pc = "del_pipe"
  /\ argc = 2
  /\ port = DefaultPort
  /\ addr = "set"
  /\ msgs = <<>>
  /\ base = "alloc"
  /\ eventBreak = TRUE
  /\ pipeEvent = "added"
  /\ stdinEvent = "added"
  /\ p = "open"
  /\ handlers = TRUE
  /\ child = "connected"
  /\ connFailed = FALSE
  /\ pipeBuf = <<>>
  /\ pipeEof = FALSE
  /\ stdinBuf = <<>>
  /\ active = <<>>
  /\ cb = "none"
  /\ cbpc = "none"
  /\ count = 0
  /\ data = <<>>
  /\ owed = 0
  /\ out = <<"BS", "BS", "CR">>
  /\ toChild = <<>>
  /\ stdinRead = <<>>
  /\ pipeRead = <<>>
  /\ hist = NoHist
  /\ sigSeen = {"SIGINT"}
  /\ eofRunning = FALSE
  /\ exitStatus = {}
  /\ closes = 0
  /\ peerLeft = MaxPeerSends
  /\ stdinLeft = MaxStdinSends
  /\ sigintLeft = MaxSigint - 1

\* the clean-up statements run again after process_free(p): pipeEvent is
\* NULL since line 294, and event_del(pipeEvent) reads ev->ev_base through
\* the null pointer
SeDelPipeAgain ==
  /\ pc = "return"
  /\ p = "freed"
  /\ pc' = "crashed"
  /\ UNCHANGED <<argc, port, addr, msgs, p, handlers, exitStatus, closes>>
  /\ UNCHANGED <<loopVars, cbVars, ioVars, sigSeen, envVars>>

TeardownNext ==
  \/ SeDelPipe \/ SeDelStdin \/ SeBaseFree \/ SeBaseNull
  \/ MainClose \/ MainFree
  \/ SeDelPipeAgain
  \/ PeerSend(LifePeerChunks) \/ StdinSend(LifeStdinChunks) \/ PipeEof

TeardownSpec == TeardownInit /\ [][TeardownNext]_vars

----------------------------------------------------------------------------
(* The split specification: the running loop fed by two sends of the peer, *)
(* each a leading or a trailing part of a PING line, so that a line cut    *)
(* in two arrives in two reads.                                            *)

\* the two parts of a PING line cut at any place
SplitChunks ==
  UNION {UNION {{SubSeq(l, 1, k), SubSeq(l, k + 1, Len(l))} :
                  k \in 1..(Len(l) - 1)} : l \in {ProbeA, ProbeB}}

SplitInit ==
  /\ pc = "loop_top"
  /\ argc = 2
  /\ port = DefaultPort
  /\ addr = "set"
  /\ msgs = <<>>
  /\ base = "alloc"
  /\ eventBreak = FALSE
  /\ pipeEvent = "added"
  /\ stdinEvent = "added"
  /\ p = "open"
  /\ handlers = TRUE
  /\ child = "connected"
  /\ connFailed = FALSE
  /\ pipeBuf = <<>>
  /\ pipeEof = FALSE
  /\ stdinBuf = <<>>
  /\ active = <<>>
  /\ cb = "none"
  /\ cbpc = "none"
  /\ count = 0
  /\ data = <<>>
  /\ owed = 0
  /\ out = <<>>
  /\ toChild = <<>>
  /\ stdinRead = <<>>
  /\ pipeRead = <<>>
  /\ hist = NoHist
  /\ sigSeen = {}
  /\ eofRunning = FALSE
  /\ exitStatus = {}
  /\ closes = 0
  /\ peerLeft = 2
  /\ stdinLeft = 0
  /\ sigintLeft = 0

SplitNext ==
  \/ PeerSend(SplitChunks)
  \/ LoopDispatch \/ LoopRun
  \/ CbIoctl \/ CbRead \/ PipeProc

SplitSpec == SplitInit /\ [][SplitNext]_vars

----------------------------------------------------------------------------
(* Properties of the handling of one chunk (chunk specification). *)

\* the origin tokens of the probes the peer sends
Origins == {<<":", "a">>, <<":", "b">>}

\* the places where chunk c holds the complete line l: l starts the chunk
\* or follows a newline
LinesAt(c, l) ==
  {i \in 1..(Len(c) - Len(l) + 1) :
     /\ SubSeq(c, i, i + Len(l) - 1) = l
     /\ (i = 1 \/ c[i - 1] = "NL")}

ProbeLine(o) == PING \o <<"SP">> \o o \o <<"NL">>
PongLine(o) == PONG \o <<"SP">> \o o \o <<"NL">>

\* pipeEventCallback has handled the chunk it read last
PipeChunkDone == hist.src = "pipe" /\ hist.done

\* stdinEventCallback has handled the chunk it read last
StdinChunkDone == hist.src = "stdin" /\ hist.done

RECURSIVE Flatten(_)
\* the bytes of a sequence of writes, in order
Flatten(ws) ==
  IF ws = <<>> THEN <<>> ELSE Head(ws).bytes \o Flatten(Tail(ws))

\* the writes of ws made by callback who
WritesBy(ws, who) == SelectSeq(ws, LAMBDA w : w.by = who)

\* C1: a chunk read from the peer that holds the line "PING :origin\n", at
\* any place, gets exactly one write to p->in, that write is
\* "PONG :origin\n", and nothing of the chunk's PING line reaches stdout.
C1_PingLineAnswered ==
  \A o \in Origins :
    (PipeChunkDone /\ LinesAt(hist.chunk, ProbeLine(o)) # {})
      => /\ Len(hist.writes) = 1
         /\ hist.writes[1].bytes = PongLine(o)
         /\ hist.out = <<>>

\* C2: a chunk read from the peer that does not hold the bytes PING is
\* written to stdout byte for byte and causes no write to p->in.
C2_PassThrough ==
  (PipeChunkDone /\ ~strstr(hist.chunk, PING))
    => /\ hist.out = hist.chunk
       /\ hist.writes = <<>>

\* C3: every chunk read from stdin is written to p->in unchanged, and the
\* bytes written to p->in for stdin are the bytes read from stdin.
C3_StdinVerbatim ==
  /\ StdinChunkDone
       => /\ Len(hist.writes) = 1
          /\ hist.writes[1].bytes = hist.chunk
  /\ ~(cb = "stdin" /\ cbpc = "proc")
       => Flatten(WritesBy(toChild, "stdin")) = stdinRead

\* C4: every complete probe line of a chunk is answered before the next
\* chunk is read: p->in gets one "PONG <origin>\n" per probe line, with
\* that probe's origin, at any offset and for any number of probes.
C4_EveryProbeAnswered ==
  PipeChunkDone =>
    \A o \in Origins :
      Cardinality({i \in 1..Len(hist.writes) :
                     hist.writes[i].bytes = PongLine(o)})
        >= Cardinality(LinesAt(hist.chunk, ProbeLine(o)))


----------------------------------------------------------------------------
(* Properties of the lifecycle (lifecycle specification). *)

\* no part of the event loop was ever set up and no callback ever ran
LoopNeverStarted ==
  /\ base = "NULL"
  /\ pipeEvent = "none"
  /\ stdinEvent = "none"
  /\ cb = "none"
  /\ hist.src = "none"

\* the Process was never created: no telnet was spawned
NeverSpawned == p = "NULL" /\ child = "none"

\* the loop context exists: the event base is allocated or a watch is registered
LoopContext == base = "alloc" \/ pipeEvent = "added" \/ stdinEvent = "added"

\* process_open(p) was called: the Transport was opened
Opened == p \in {"open", "closed", "freed"}

\* C5: an interrupt received while the loop runs makes the loop stop, the
\* watches are unregistered, the Transport is closed, and the process exits
\* with status 0.
C5_InterruptExitsZero ==
  (pc = "exited" /\ "SIGINT" \in sigSeen)
    => /\ exitStatus = {0}
       /\ pipeEvent = "freed"
       /\ stdinEvent = "freed"
       /\ p \in {"closed", "freed"}

\* C6: when the read side of the Transport is at end of stream while the
\* loop runs, the loop eventually stops and the Transport is released.
\* (A run that ends with the process dying in handleSignals on a freed event
\* base is not held against the claim here.)
C6_PeerCloseStops ==
  eofRunning ~> (p \in {"closed", "freed"} \/ pc = "crashed")

\* C7: a port outside 1..65535 is rejected with the usage text and a
\* non-zero exit before any resolution, spawn or connection attempt; with no
\* port argument the port is 6667 and it is accepted.
C7_PortValidation ==
  /\ (argc = 3 /\ port \notin 1..65535)
       => /\ pc \in {"return", "exited"}
          /\ msgs = <<"BadPort", "Usage">>
          /\ addr = "unset"
          /\ NeverSpawned
          /\ LoopNeverStarted
          /\ (pc = "exited" => exitStatus # {} /\ 0 \notin exitStatus)
  /\ argc = 2
       => /\ port = 6667
          /\ msgs \in {<<>>, <<"NoResolve">>}

\* a rejected port argument, after the exit
C7_Witness == pc = "exited" /\ argc = 3 /\ port = 65536

\* the default port, accepted and in use by the running loop
C7_WitnessDefault == argc = 2 /\ Running /\ child = "connected"

C9_ContextWithinTransport ==
  /\ LoopContext => p = "open"
  /\ p \in {"closed", "freed"}
       => /\ base = "NULL"
          /\ pipeEvent = "freed"
          /\ stdinEvent = "freed"

\* the Transport just closed, after the loop ran and was torn down
C9_Witness == pc = "free" /\ p = "closed" /\ hist.done

\* C10: when the Transport was opened it is closed exactly once before the
\* process ends, whatever stops the loop: never twice, never left open.
C10_ClosedExactlyOnce ==
  /\ closes <= 1
  /\ (~Alive /\ Opened) => closes = 1

----------------------------------------------------------------------------
(* The clean-up run twice (teardown specification). *)

----------------------------------------------------------------------------
(* A PING line cut in two by a chunk boundary (split specification). *)

\* the cuts of the line "PING origin\n" that leave the origin token
\* incomplete in the first part
OriginCuts(o) == 1..(Len(PING) + Len(o))

\* the two reads of the line of origin o cut after k bytes are done
SplitRead(o, k) ==
  /\ pipeRead = <<SubSeq(ProbeLine(o), 1, k),
                  SubSeq(ProbeLine(o), k + 1, Len(ProbeLine(o)))>>
  /\ PipeChunkDone

----------------------------------------------------------------------------
(* The callbacks and the signals in one run (lifecycle specification). *)

\* C13: in both callbacks a read follows an availability check of the same
\* descriptor that reported more than zero bytes, and the read takes at
\* most the number of bytes that check reported, also when more bytes
\* arrived between the check and the read.
C13_ReadWithinCheck ==
  /\ (cb # "none" /\ cbpc = "read") => count > 0
  /\ (cb # "none" /\ cbpc = "proc")
       => /\ hist.src = cb
          /\ count > 0
          /\ Len(data) <= count

\* C14: after the stop was requested, the callback that is running makes
\* at most one read more than it takes to drain what was pending on its
\* descriptor at that moment: data that keeps arriving does not prolong it.
C14_DrainBoundedAfterInterrupt ==
  (eventBreak /\ cb # "none") => owed >= -1

\* C15: a signal that arrives while a callback is running does not abort
\* it: a chunk that was read and is not handled yet exists only inside the
\* running loop, in the hands of the callback that read it, and every chunk
\* that was handled was echoed, forwarded to p->in or answered; so the loop
\* never stops on a chunk that was read and dropped.
C15_ChunkNeverDropped ==
  /\ (hist.src # "none" /\ ~hist.done)
       => /\ Running
          /\ cb = hist.src
          /\ cbpc = "proc"
          /\ data = hist.chunk
  /\ StdinChunkDone
       => hist.writes = <<[by |-> "stdin", bytes |-> hist.chunk]>>
  /\ PipeChunkDone
       => (hist.out = hist.chunk \/ hist.writes # <<>>)

\* the loop has stopped after an interrupt that arrived between the read
\* of a chunk and its handling, and the chunk was handled
C15_Witness ==
  /\ pc = "del_pipe"
  /\ "SIGINT" \in sigSeen
  /\ hist.sig
  /\ hist.done

\* C16: a SIGCHLD that arrives while the loop is running does what an
\* interrupt does: the loop is asked to stop (event_break stays set for as
\* long as the loop runs), and when the process has ended both watches were
\* unregistered and the Transport was closed.
C16_SigchldStopsLikeInterrupt ==
  /\ ("SIGCHLD" \in sigSeen /\ Running) => eventBreak
  /\ ("SIGCHLD" \in sigSeen /\ ~Alive)
       => /\ pipeEvent = "freed"
          /\ stdinEvent = "freed"
          /\ p \in {"closed", "freed"}

\* a SIGINT or a SIGCHLD was delivered to handleSignals
StopRequested == handlers /\ (sigintLeft < MaxSigint \/ child = "exited")

\* C17: a stop request is never lost: once handleSignals got a SIGINT or a
\* SIGCHLD, at whatever point after signal() installed it, the loop stops
\* and the process comes to its end.
C17_StopNeverLost == StopRequested ~> ~Alive

\* a step that runs handleSignals: an interrupt, or the exit of the child
SignalStep ==
  \/ sigintLeft' # sigintLeft
  \/ child # "exited" /\ child' = "exited"

\* C18: handleSignals never runs on a released event base: whenever a
\* signal arrives, the global base is NULL or points to the allocated base.
C18_NoBreakOnFreedBase == [][SignalStep => base # "freed"]_vars

\* C19: of a chunk read from the peer, every byte outside its PING line
\* reaches stdout: for a chunk made of one complete PING line with other
\* data (free of PING and of NUL) before and after it, that other data is
\* what the callback echoes.
C19_NonProbeDataEchoed ==
  \A o \in Origins :
    \A i \in LinesAt(hist.chunk, ProbeLine(o)) :
      LET before == SubSeq(hist.chunk, 1, i - 1)
          after == SubSeq(hist.chunk, i + Len(ProbeLine(o)), Len(hist.chunk))
      IN  ( /\ PipeChunkDone
            /\ ~strstr(before, PING)
            /\ ~strstr(after, PING)
            /\ \A j \in 1..Len(hist.chunk) : hist.chunk[j] # "NUL" )
            => hist.out = before \o after

\* C20: what the child wrote before it exited is read before the clean-up:
\* when the child exited while the loop was running and the Transport is
\* closed, no byte of the child's output is left unread in the pipe.
C20_OutputReadBeforeClose ==
  ("SIGCHLD" \in sigSeen /\ p \in {"closed", "freed"}) => pipeBuf = <<>>

====
